---- MODULE Spec2Model ----
(***************************************************************************)
(* Model of watermark_tool.py: the placement calculator                    *)
(* (calculate_watermark_position), the date resolver (get_exif_date), the  *)
(* interactive preferences (get_user_preferences) and one run of           *)
(* main / process_images over a directory.                                 *)
(*                                                                         *)
(* Text (file names, user input, EXIF values, formatted dates) is a        *)
(* sequence of one-character strings, so that parsing and formatting are   *)
(* computed character by character as the library routines do.             *)
(***************************************************************************)
EXTENDS Integers, Sequences, FiniteSets

VARIABLES
    \* ---- placement calculator (one call) ----
    pc_place,       \* "idle" | "returned"
    img_width, img_height, text_width, text_height, anchor,
    xy,             \* the returned pair <<x, y>>
    \* ---- date resolver (one call) ----
    pc_date,        \* "idle" | "returned"
    img_env,        \* what the image file looks like to get_exif_date
    date_ret,       \* [text |-> chars, src |-> "exif" | "mtime" | "now", raised]
    \* ---- one run of main() ----
    pc,             \* where the run is
    dir_kind,       \* the path given to main: "missing" | "file" | "dir"
    listing,        \* os.listdir: [ok, names]
    out_dir,        \* content of _watermark/<name>, for every name
    dir_failure,    \* the directory-level failure met, or "none"
    image_files,    \* process_images' list of paths <<directory, name>>
    last_input,     \* the line the last input() call read
    font_size, color, position,     \* get_user_preferences' results
    idx,            \* number of files the loop has taken from image_files
    success_count,
    watermark_text, \* the text get_exif_date returned for the current file
    open_image,     \* the path add_watermark holds open, or <<>>
    before,         \* content of the output path when add_watermark was called
    aw_ret,         \* add_watermark's return value: "none" | TRUE | FALSE
    attempts,       \* the paths add_watermark was called with, in order
    results,        \* its return values, in order
    written         \* names whose output file this run opened for writing

placeVars == <<pc_place, img_width, img_height, text_width, text_height, anchor, xy>>
dateVars  == <<pc_date, img_env, date_ret>>
envVars   == <<dir_kind, listing>>
prefVars  == <<last_input, font_size, color, position>>
loopVars  == <<idx, success_count, watermark_text, open_image, before, aw_ret,
               attempts, results>>
runVars   == <<pc, envVars, out_dir, dir_failure, image_files, prefVars, loopVars,
               written>>

(***************************************************************************)
(* Bounds                                                                  *)
(***************************************************************************)
MaxCanvas == 42
MaxText   == 2
MaxEntries == 2     \* longest directory listing

CanvasSizes == (0..MaxCanvas) \cup {800, 1000}
TextSizes   == (0..MaxText) \cup {30, 120}

(***************************************************************************)
(* calculate_watermark_position                                            *)
(***************************************************************************)
margin == 20

KnownAnchors == {"top-left", "top-right", "bottom-left", "bottom-right", "center"}
OtherAnchors == {"middle", "TOP-LEFT"}

\* integer division that rounds toward zero, as / on C or Java integers does
TruncDiv(a, b) == IF a >= 0 THEN a \div b ELSE 0 - ((0 - a) \div b)

\* Python's // on integers: floor division (the divisor is the literal 2).
FloorDiv(a, b) == a \div b

\* the placement with another default: an unrecognized anchor goes top-left
calculate_watermark_position_DefaultTopLeft(W, H, w, h, pos) ==
    IF pos = "top-left" THEN <<margin, margin>>
    ELSE IF pos = "top-right" THEN <<W - w - margin, margin>>
    ELSE IF pos = "bottom-left" THEN <<margin, H - h - margin>>
    ELSE IF pos = "bottom-right" THEN <<W - w - margin, H - h - margin>>
    ELSE IF pos = "center" THEN <<FloorDiv(W - w, 2), FloorDiv(H - h, 2)>>
    ELSE <<margin, margin>>

\* the placement with coordinates clamped at the canvas origin
ClampAtZero(v) == IF v < 0 THEN 0 ELSE v

calculate_watermark_position_Clamped(W, H, w, h, pos) ==
    IF pos = "top-left" THEN <<margin, margin>>
    ELSE IF pos = "top-right" THEN <<ClampAtZero(W - w - margin), margin>>
    ELSE IF pos = "bottom-left" THEN <<margin, ClampAtZero(H - h - margin)>>
    ELSE IF pos = "bottom-right"
    THEN <<ClampAtZero(W - w - margin), ClampAtZero(H - h - margin)>>
    ELSE IF pos = "center" THEN <<FloorDiv(W - w, 2), FloorDiv(H - h, 2)>>
    ELSE <<margin, ClampAtZero(H - h - margin)>>

calculate_watermark_position(W, H, w, h, pos) ==
    IF pos = "top-left" THEN <<margin, margin>>
    ELSE IF pos = "top-right" THEN <<W - w - margin, margin>>
    ELSE IF pos = "bottom-left" THEN <<margin, H - h - margin>>
    ELSE IF pos = "bottom-right" THEN <<W - w - margin, H - h - margin>>
    ELSE IF pos = "center" THEN <<FloorDiv(W - w, 2), FloorDiv(H - h, 2)>>
    ELSE <<margin, H - h - margin>>

PlaceIdle ==
    /\ pc_place = "idle"
    /\ img_width = 0 /\ img_height = 0 /\ text_width = 0 /\ text_height = 0
    /\ anchor = "top-left"
    /\ xy = <<0, 0>>

\* One call of calculate_watermark_position with arguments drawn from the
\* bounded sets.
CalcPosition ==
    /\ pc_place = "idle"
    /\ \E W \in CanvasSizes, H \in CanvasSizes, w \in TextSizes, h \in TextSizes,
          a \in KnownAnchors \cup OtherAnchors :
          /\ img_width' = W /\ img_height' = H
          /\ text_width' = w /\ text_height' = h
          /\ anchor' = a
          /\ xy' = calculate_watermark_position(W, H, w, h, a)
    /\ pc_place' = "returned"
    /\ UNCHANGED <<dateVars, runVars>>

(***************************************************************************)
(* Text helpers                                                            *)
(***************************************************************************)
DigitChars == <<"0", "1", "2", "3", "4", "5", "6", "7", "8", "9">>

IsDigit(c) == \E k \in 1..10 : DigitChars[k] = c

DigitVal(c) == (CHOOSE k \in 1..10 : DigitChars[k] = c) - 1

DigitChar(n) == DigitChars[n + 1]

\* the characters str.isspace() accepts among those the model uses
IsSpace(c) == c \in {" ", "\t"}

\* n >= 0 written in decimal, without padding
RECURSIVE Decimal(_)
Decimal(n) == IF n < 10 THEN <<DigitChar(n)>>
              ELSE Decimal(n \div 10) \o <<DigitChar(n % 10)>>

\* n >= 0 written in decimal, zero-padded on the left to at least width k
RECURSIVE ZeroPad(_, _)
ZeroPad(n, k) == IF Len(Decimal(n)) >= k THEN Decimal(n)
                 ELSE <<"0">> \o (IF k > 1 THEN ZeroPad(n, k - 1) ELSE <<>>)

(***************************************************************************)
(* datetime.strptime(value, "%Y:%m:%d %H:%M:%S")                           *)
(*                                                                         *)
(* _strptime turns the format into the regular expression                  *)
(*   (\d\d\d\d):(1[0-2]|0[1-9]|[1-9]):(3[01]|[12]\d|0[1-9]|[1-9]| [1-9])   *)
(*   \s+(2[0-3]|[0-1]\d|\d):([0-5]\d|\d):(6[0-1]|[0-5]\d|\d)               *)
(* matches it at the start of the value, rejects unconverted data, and     *)
(* then builds a datetime, which validates the calendar date and the       *)
(* second.  Every failure is a ValueError; a value that is not a str is a  *)
(* TypeError.                                                              *)
(***************************************************************************)
NoMatch == [ok |-> FALSE, val |-> 0, nxt |-> 0]

CharAt(s, i) == IF i \in 1..Len(s) THEN s[i] ELSE "EOS"

\* \d\d\d\d at position i
MatchYear(s, i) ==
    IF \A k \in 0..3 : IsDigit(CharAt(s, i + k))
    THEN [ok |-> TRUE,
          val |-> 1000 * DigitVal(s[i]) + 100 * DigitVal(s[i + 1])
                  + 10 * DigitVal(s[i + 2]) + DigitVal(s[i + 3]),
          nxt |-> i + 4]
    ELSE NoMatch

\* A one- or two-digit field at position i: the two-digit alternatives accept
\* lo2..hi2, the one-digit alternative accepts lo1..9.  The alternatives are
\* tried in the order of the expression; the expression goes on after the
\* first one that matches.
MatchField(s, i, lo2, hi2, lo1) ==
    LET c1 == CharAt(s, i)
        c2 == CharAt(s, i + 1)
        two == 10 * DigitVal(c1) + DigitVal(c2)
    IN  IF IsDigit(c1) /\ IsDigit(c2) /\ two >= lo2 /\ two <= hi2
        THEN [ok |-> TRUE, val |-> two, nxt |-> i + 2]
        ELSE IF IsDigit(c1) /\ DigitVal(c1) >= lo1
        THEN [ok |-> TRUE, val |-> DigitVal(c1), nxt |-> i + 1]
        ELSE NoMatch

\* %d also accepts a blank followed by one of 1..9
MatchDay(s, i) ==
    LET f == MatchField(s, i, 1, 31, 1)
    IN  IF f.ok THEN f
        ELSE IF CharAt(s, i) = " " /\ IsDigit(CharAt(s, i + 1))
                /\ DigitVal(CharAt(s, i + 1)) >= 1
        THEN [ok |-> TRUE, val |-> DigitVal(s[i + 1]), nxt |-> i + 2]
        ELSE NoMatch

\* a literal character of the format
MatchLit(s, i, c) ==
    IF CharAt(s, i) = c THEN [ok |-> TRUE, val |-> 0, nxt |-> i + 1] ELSE NoMatch

\* \s+ : the blank of the format matches one or more whitespace characters
RECURSIVE SkipSpaces(_, _)
SkipSpaces(s, i) == IF IsSpace(CharAt(s, i)) THEN SkipSpaces(s, i + 1) ELSE i

MatchSpaces(s, i) ==
    IF IsSpace(CharAt(s, i))
    THEN [ok |-> TRUE, val |-> 0, nxt |-> SkipSpaces(s, i)]
    ELSE NoMatch

IsLeap(y) == (y % 4 = 0) /\ ((y % 100 # 0) \/ (y % 400 = 0))

DaysInMonth(y, m) ==
    IF m = 2 THEN (IF IsLeap(y) THEN 29 ELSE 28)
    ELSE IF m \in {4, 6, 9, 11} THEN 30 ELSE 31

\* datetime's constructor: MINYEAR <= year, 1 <= day <= days in month,
\* 0 <= second <= 59
ValidDateTime(y, m, d, sec) ==
    /\ y >= 1
    /\ m \in 1..12
    /\ d >= 1 /\ d <= DaysInMonth(y, m)
    /\ sec \in 0..59

ParseError == [ok |-> FALSE, year |-> 0, month |-> 0, day |-> 0]

\* the format "%Y:%m:%d %H:%M:%S", directive by directive
DateTimeFormat == <<"%Y", ":", "%m", ":", "%d", " ", "%H", ":", "%M", ":", "%S">>

MatchDirective(dv, s, i) ==
    CASE dv = "%Y" -> MatchYear(s, i)
      [] dv = "%m" -> MatchField(s, i, 1, 12, 1)
      [] dv = "%d" -> MatchDay(s, i)
      [] dv = "%H" -> MatchField(s, i, 0, 23, 0)
      [] dv = "%M" -> MatchField(s, i, 0, 59, 0)
      [] dv = "%S" -> MatchField(s, i, 0, 61, 0)
      [] dv = " "  -> MatchSpaces(s, i)
      [] OTHER     -> MatchLit(s, i, dv)

\* the values of the directives from the k-th on, matched from position i;
\* the whole value has to be consumed
RECURSIVE MatchFormat(_, _, _, _)
MatchFormat(s, i, k, vals) ==
    IF k > Len(DateTimeFormat)
    THEN [ok |-> (i = Len(s) + 1), vals |-> vals]
    ELSE LET r == MatchDirective(DateTimeFormat[k], s, i)
         IN  IF r.ok THEN MatchFormat(s, r.nxt, k + 1, Append(vals, r.val))
             ELSE [ok |-> FALSE, vals |-> vals]

\* v is a value of the EXIF dictionary: [is_str, chars]
strptime(v) ==
    IF ~v.is_str THEN ParseError
    ELSE LET found == MatchFormat(v.chars, 1, 1, <<>>)
         IN  IF found.ok /\ ValidDateTime(found.vals[1], found.vals[3], found.vals[5],
                                          found.vals[11])
             THEN [ok |-> TRUE, year |-> found.vals[1], month |-> found.vals[3],
                   day |-> found.vals[5]]
             ELSE ParseError

(***************************************************************************)
(* date_obj.strftime("%Y-%m-%d")                                           *)
(*                                                                         *)
(* %m and %d are always two digits.  %Y is handed to the platform's        *)
(* strftime: some C libraries pad the year to four digits, others (glibc)  *)
(* print it as a plain decimal number, so a year below 1000 comes out      *)
(* shorter.  pad_year says which library the interpreter is built on.      *)
(***************************************************************************)
strftime(date, pad_year) ==
    (IF pad_year THEN ZeroPad(date.year, 4) ELSE Decimal(date.year))
    \o <<"-">> \o ZeroPad(date.month, 2) \o <<"-">> \o ZeroPad(date.day, 2)

(***************************************************************************)
(* datetime.fromtimestamp(mtime): seconds since the epoch to the local     *)
(* calendar date.  The local zone is a fixed offset from UTC (utcoff, in   *)
(* seconds).  The day number is turned into a proleptic Gregorian date     *)
(* (400-year eras of 146097 days, years starting in March).                *)
(***************************************************************************)
CivilFromDays(days) ==
    LET z   == days + 719468
        era == z \div 146097
        doe == z - era * 146097
        yoe == (doe - (doe \div 1460) + (doe \div 36524) - (doe \div 146096)) \div 365
        doy == doe - (365 * yoe + (yoe \div 4) - (yoe \div 100))
        mp  == (5 * doy + 2) \div 153
        d   == doy - ((153 * mp + 2) \div 5) + 1
        m   == IF mp < 10 THEN mp + 3 ELSE mp - 9
        y   == yoe + era * 400 + (IF m <= 2 THEN 1 ELSE 0)
    IN  [year |-> y, month |-> m, day |-> d]

fromtimestamp(secs, utcoff) == CivilFromDays((secs + utcoff) \div 86400)

(***************************************************************************)
(* get_exif_date                                                           *)
(*                                                                         *)
(* env describes what the calls of get_exif_date meet for one image:       *)
(*   exif  : "open_fails"   Image.open raises                              *)
(*           "no_getexif"   img._getexif() raises (the format has none)    *)
(*           "empty"        _getexif() returns None or {}                  *)
(*           "no_datetime"  a dictionary without the DateTime tag          *)
(*           "datetime"     a dictionary whose DateTime tag is env.value   *)
(*   mtime : "os_error"     os.path.getmtime raises                        *)
(*           "out_of_range" datetime.fromtimestamp raises                  *)
(*           "ok"           the time is env.secs                           *)
(*   utcoff: the local zone; now: datetime.now() as a date;                *)
(*   pad_year: the platform's %Y                                           *)
(* The result is the returned text and the branch that returned it.        *)
(***************************************************************************)
\* lines 50-61: the EXIF attempt returns a text, or control falls through to
\* the modification time (nothing found, or an exception caught and printed)
ExifAttempt(env) ==
    IF env.exif \in {"open_fails", "no_getexif"}
    THEN [returned |-> FALSE, text |-> <<>>]
    ELSE IF env.exif \in {"empty", "no_datetime"}
    THEN [returned |-> FALSE, text |-> <<>>]
    ELSE LET date_obj == strptime(env.value)
         IN  IF date_obj.ok
             THEN [returned |-> TRUE, text |-> strftime(date_obj, env.pad_year)]
             ELSE [returned |-> FALSE, text |-> <<>>]

\* lines 64-69: the modification time, and the clock under the bare except
MtimeAttempt(env) ==
    IF env.mtime = "ok"
    THEN [text |-> strftime(fromtimestamp(env.secs, env.utcoff), env.pad_year),
          src |-> "mtime", raised |-> FALSE]
    ELSE [text |-> strftime(env.now, env.pad_year), src |-> "now", raised |-> FALSE]

get_exif_date(env) ==
    LET first == ExifAttempt(env)
    IN  IF first.returned
        THEN [text |-> first.text, src |-> "exif", raised |-> FALSE]
        ELSE MtimeAttempt(env)

\* ---- the environments the date resolver is run on ----
StrValue(s) == [is_str |-> TRUE, chars |-> s]

ExifValues ==
    { StrValue(<<"2","0","2","3",":","0","5",":","1","7"," ","1","0",":","0","0",":","0","0">>),
      StrValue(<<"2","0","2","3",":","5",":","7"," ","1",":","2",":","3">>),
      StrValue(<<"2","0","2","3",":","0","5",":"," ","7","\t","1","0",":","0","0",":","0","0">>),
      StrValue(<<"2","0","2","4",":","0","2",":","2","9"," ","2","3",":","5","9",":","5","9">>),
      StrValue(<<"0","0","9","9",":","0","1",":","0","1"," ","0","0",":","0","0",":","0","0">>),
      StrValue(<<"0","0","0","0",":","0","0",":","0","0"," ","0","0",":","0","0",":","0","0">>),
      StrValue(<<"2","0","2","3",":","0","2",":","3","0"," ","1","0",":","0","0",":","0","0">>),
      StrValue(<<"2","0","2","3",":","1","3",":","0","1"," ","1","0",":","0","0",":","0","0">>),
      StrValue(<<"2","0","2","3",":","0","5",":","1","7"," ","2","4",":","0","0",":","0","0">>),
      StrValue(<<"2","0","2","3",":","0","5",":","1","7"," ","1","0",":","0","0",":","6","0">>),
      StrValue(<<"2","0","2","3",":","0","5",":","1","7"," ","1","0",":","0","0",":","0","0","NUL">>),
      StrValue(<<"2","0","2","3","-","0","5","-","1","7">>),
      StrValue(<<>>),
      [is_str |-> FALSE, chars |-> <<>>] }

\* 2023-05-17 23:59:59 UTC, 2024-02-29 12:00:00 UTC, the epoch, the second
\* before it
MtimeValues == {1684367999, 1709208000, 0, -1}

UtcOffsets == {-28800, 0, 28800}

NowValues == { [year |-> 2025, month |-> 9, day |-> 3],
               [year |-> 2026, month |-> 11, day |-> 1] }

ExifKinds == {"open_fails", "no_getexif", "empty", "no_datetime", "datetime"}

MtimeKinds == {"os_error", "out_of_range", "ok"}

ImageEnv(ex, v, mt, t, off, nw, pad) ==
    [exif |-> ex, value |-> v, mtime |-> mt, secs |-> t, utcoff |-> off,
     now |-> nw, pad_year |-> pad]

\* the fields a branch does not read are fixed, so that two environments
\* differ only in what the code can see
NormalEnv(e) ==
    /\ (e.exif # "datetime" => e.value = StrValue(<<>>))
    /\ (e.mtime # "ok" => e.secs = 0)

NoEnv == [exif |-> "open_fails", value |-> StrValue(<<>>), mtime |-> "os_error",
          secs |-> 0, utcoff |-> 0,
          now |-> [year |-> 2025, month |-> 9, day |-> 3], pad_year |-> TRUE]

NoDate == [text |-> <<>>, src |-> "none", raised |-> FALSE]

DateIdle == pc_date = "idle" /\ img_env = NoEnv /\ date_ret = NoDate

\* One call of get_exif_date on an image drawn from ImageEnvs.
ResolveDate ==
    /\ pc_date = "idle"
    /\ \E ex \in ExifKinds, v \in ExifValues, mt \in MtimeKinds, t \in MtimeValues,
          off \in UtcOffsets, nw \in NowValues, pad \in BOOLEAN :
          LET e == ImageEnv(ex, v, mt, t, off, nw, pad)
          IN  /\ NormalEnv(e)
              /\ img_env' = e
              /\ date_ret' = get_exif_date(e)
    /\ pc_date' = "returned"
    /\ UNCHANGED <<placeVars, runVars>>

(***************************************************************************)
(* WatermarkTool.__init__                                                  *)
(***************************************************************************)
colors == [c \in {<<"1">>, <<"2">>, <<"3">>, <<"4">>, <<"5">>, <<"6">>} |->
             CASE c = <<"1">> -> <<255, 255, 255>>
               [] c = <<"2">> -> <<0, 0, 0>>
               [] c = <<"3">> -> <<255, 0, 0>>
               [] c = <<"4">> -> <<0, 0, 255>>
               [] c = <<"5">> -> <<0, 255, 0>>
               [] c = <<"6">> -> <<255, 255, 0>>]

positions == [c \in {<<"1">>, <<"2">>, <<"3">>, <<"4">>, <<"5">>} |->
                CASE c = <<"1">> -> "top-left"
                  [] c = <<"2">> -> "bottom-left"
                  [] c = <<"3">> -> "top-right"
                  [] c = <<"4">> -> "bottom-right"
                  [] c = <<"5">> -> "center"]

supported_formats == { <<".", "j", "p", "g">>, <<".", "j", "p", "e", "g">>,
                       <<".", "p", "n", "g">>, <<".", "t", "i", "f", "f">>,
                       <<".", "b", "m", "p">> }

(***************************************************************************)
(* get_image_files                                                         *)
(***************************************************************************)
\* str.lower() on the letters the file names of the model use
LowerChar(c) ==
    CASE c = "B" -> "b" [] c = "P" -> "p" [] c = "N" -> "n" [] c = "G" -> "g"
      [] c = "J" -> "j" [] OTHER -> c

Lower(s) == [k \in 1..Len(s) |-> LowerChar(s[k])]

EndsWith(s, suffix) ==
    /\ Len(s) >= Len(suffix)
    /\ SubSeq(s, Len(s) - Len(suffix) + 1, Len(s)) = suffix

IsImageName(filename) == \E fmt \in supported_formats : EndsWith(Lower(filename), fmt)

\* os.path.join(directory, filename) and os.path.basename(path)
PathJoin(directory, filename) == <<directory, filename>>
Basename(path) == path[2]

RECURSIVE FilterImages(_, _)
FilterImages(directory, names) ==
    IF names = <<>> THEN <<>>
    ELSE (IF IsImageName(Head(names)) THEN <<PathJoin(directory, Head(names))>> ELSE <<>>)
         \o FilterImages(directory, Tail(names))

\* the list get_image_files returns: [] when os.listdir raised
get_image_files(directory, ls) ==
    IF ls.ok THEN FilterImages(directory, ls.names) ELSE <<>>

\* ---- the directories the run is given ----
NamePool == { <<"a", ".", "j", "p", "g">>, <<"B", ".", "P", "N", "G">>,
              <<"n", "o", "t", "e", "s", ".", "t", "x", "t">>,
              <<"j", "p", "g">> }

RECURSIVE SeqsNoDup(_, _)
SeqsNoDup(S, n) ==
    IF n = 0 THEN {<<>>}
    ELSE LET shorter == SeqsNoDup(S, n - 1)
         IN  shorter \cup { Append(q, x) : q \in { r \in shorter : Len(r) = n - 1 },
                                            x \in S }

NoDup(q) == \A a, b \in 1..Len(q) : a # b => q[a] # q[b]

\* os.listdir gives each name of the directory once, in arbitrary order
Listings == { q \in SeqsNoDup(NamePool, MaxEntries) : NoDup(q) }

TheDirectory == "photos"

(***************************************************************************)
(* get_user_preferences                                                    *)
(***************************************************************************)
RECURSIVE StripLeft(_)
StripLeft(s) == IF s # <<>> /\ IsSpace(Head(s)) THEN StripLeft(Tail(s)) ELSE s

RECURSIVE StripRight(_)
StripRight(s) == IF s # <<>> /\ IsSpace(s[Len(s)])
                 THEN StripRight(SubSeq(s, 1, Len(s) - 1)) ELSE s

\* the value of a digit string in which single underscores may separate digits
RECURSIVE DigitsValue(_, _)
DigitsValue(s, acc) ==
    IF s = <<>> THEN acc
    ELSE IF Head(s) = "_" THEN DigitsValue(Tail(s), acc)
    ELSE DigitsValue(Tail(s), 10 * acc + DigitVal(Head(s)))

WellFormedDigits(s) ==
    /\ s # <<>>
    /\ \A k \in 1..Len(s) : IsDigit(s[k]) \/ s[k] = "_"
    /\ IsDigit(s[1]) /\ IsDigit(s[Len(s)])
    /\ \A k \in 1..(Len(s) - 1) : ~(s[k] = "_" /\ s[k + 1] = "_")

\* int(line): surrounding whitespace is dropped, one sign is allowed, the
\* rest is decimal digits; anything else raises ValueError
ParseInt(line) ==
    LET t      == StripRight(StripLeft(line))
        signed == t # <<>> /\ Head(t) \in {"+", "-"}
        digits == IF signed THEN Tail(t) ELSE t
    IN  IF WellFormedDigits(digits)
        THEN [ok |-> TRUE,
              val |-> IF signed /\ Head(t) = "-" THEN 0 - DigitsValue(digits, 0)
                      ELSE DigitsValue(digits, 0)]
        ELSE [ok |-> FALSE, val |-> 0]

\* the size check without its upper end
FontSizeAccepted_NoUpperBound(line) ==
    LET n == ParseInt(line)
    IN  n.ok /\ 10 <= n.val

\* lines 78-84: the lines the font-size prompt accepts
FontSizeAccepted(line) ==
    LET n == ParseInt(line)
    IN  n.ok /\ 10 <= n.val /\ n.val <= 200

\* lines 93 and 106: membership of the line in the dictionary's keys
ColorAccepted(line) == line \in DOMAIN colors

PositionAccepted(line) == line \in DOMAIN positions

\* ---- the lines the user types ----
InputLines ==
    { <<"9">>, <<"1", "0">>, <<" ", "5", "0", " ">>, <<"+", "2", "0", "0">>,
      <<"2", "0", "1">>, <<"-", "2", "0">>, <<"1", "_", "0">>, <<"a", "b", "c">>,
      <<"4", ".", "5">>, <<>>,
      <<"1">>, <<"2">>, <<"3">>, <<"4">>, <<"5">>, <<"6">>, <<"7">>, <<"0">>,
      <<" ", "1">>, <<"0", "1">> }

NoInput == <<"(", "n", "o", "n", "e", ")">>

\* lines 76-84: one pass of the font-size loop.  The assignment of line 78
\* happens as soon as int() returns, before the range is looked at; a
\* ValueError leaves font_size as it was.  input() may also meet the end of
\* the input, and the EOFError leaves the program.
AskFontSize ==
    /\ pc = "ask_font"
    /\ \/ \E line \in InputLines :
             /\ last_input' = line
             /\ font_size' = IF ParseInt(line).ok THEN ParseInt(line).val ELSE font_size
             /\ pc' = IF FontSizeAccepted(line) THEN "ask_color" ELSE pc
       \/ /\ pc' = "crashed"
          /\ UNCHANGED <<last_input, font_size>>
    /\ UNCHANGED <<placeVars, dateVars, envVars, out_dir, dir_failure, image_files,
                   color, position, loopVars, written>>

\* lines 91-97: one pass of the colour loop
AskColor ==
    /\ pc = "ask_color"
    /\ \/ \E line \in InputLines :
             /\ last_input' = line
             /\ IF ColorAccepted(line)
                THEN color' = colors[line] /\ pc' = "ask_position"
                ELSE UNCHANGED <<color, pc>>
       \/ /\ pc' = "crashed"
          /\ UNCHANGED <<last_input, color>>
    /\ UNCHANGED <<placeVars, dateVars, envVars, out_dir, dir_failure, image_files,
                   font_size, position, loopVars, written>>

\* lines 104-112: one pass of the position loop; an accepted line ends
\* get_user_preferences
AskPosition ==
    /\ pc = "ask_position"
    /\ \/ \E line \in InputLines :
             IF PositionAccepted(line)
             THEN /\ position' = positions[line]
                  /\ last_input' = NoInput
                  /\ pc' = "makedirs"
             ELSE /\ last_input' = line
                  /\ UNCHANGED <<position, pc>>
       \/ /\ pc' = "crashed"
          /\ UNCHANGED <<last_input, position>>
    /\ UNCHANGED <<placeVars, dateVars, envVars, out_dir, dir_failure, image_files,
                   font_size, color, loopVars, written>>

(***************************************************************************)
(* main and process_images                                                 *)
(*                                                                         *)
(* The environment decides the outcome of each call into the file system   *)
(* and the imaging library.  Writing to standard output is taken to        *)
(* succeed.                                                                *)
(***************************************************************************)
ImageNames == { n \in NamePool : IsImageName(n) }

\* the images and rendered texts add_watermark meets: <<width, height>>
RunCanvases == { <<1000, 800>>, <<30, 30>> }
RunTexts    == { <<120, 30>> }

\* the images get_exif_date meets during a run
RunEnvs ==
    { ImageEnv(ex, IF ex = "datetime"
                   THEN StrValue(<<"2","0","2","3",":","0","5",":","1","7"," ",
                                   "1","0",":","0","0",":","0","0">>)
                   ELSE StrValue(<<>>),
               mt, 0, 0, NoEnv.now, TRUE) :
        ex \in {"open_fails", "datetime"}, mt \in {"os_error", "ok"} }

RunIdle ==
    /\ pc = "idle"
    /\ dir_kind = "dir"
    /\ listing = [ok |-> TRUE, names |-> <<>>]
    /\ out_dir = [n \in ImageNames |-> "absent"]
    /\ dir_failure = "none"
    /\ image_files = <<>>
    /\ last_input = NoInput
    /\ font_size = 0 /\ color = <<>> /\ position = "unset"
    /\ idx = 0 /\ success_count = 0
    /\ watermark_text = <<>>
    /\ open_image = <<>>
    /\ before = "absent"
    /\ aw_ret = "none"
    /\ attempts = <<>> /\ results = <<>>
    /\ written = {}

\* The state main() starts in: the path names nothing, a file, or a directory
\* with some listing; _watermark may hold the outputs of an earlier run.
RunInit ==
    /\ pc = "main"
    /\ dir_kind \in {"missing", "file", "dir"}
    /\ listing \in [ok : BOOLEAN, names : Listings]
    /\ (dir_kind # "dir" \/ ~listing.ok) => listing.names = <<>>
    /\ dir_kind # "dir" => listing.ok
    /\ out_dir \in [ImageNames -> {"absent", "old"}]
    /\ dir_kind # "dir" => out_dir = [n \in ImageNames |-> "absent"]
    /\ dir_failure = "none"
    /\ image_files = <<>>
    /\ last_input = NoInput
    /\ font_size = 0 /\ color = <<>> /\ position = "unset"
    /\ idx = 0 /\ success_count = 0
    /\ watermark_text = <<>>
    /\ open_image = <<>>
    /\ before = "absent"
    /\ aw_ret = "none"
    /\ attempts = <<>> /\ results = <<>>
    /\ written = {}

\* main, lines 253-264: the two checks of the path, then process_images
Main ==
    /\ pc = "main"
    /\ IF dir_kind = "missing"
       THEN dir_failure' = "missing" /\ pc' = "exit_1"
       ELSE IF dir_kind # "dir"
       THEN dir_failure' = "not_dir" /\ pc' = "exit_1"
       ELSE dir_failure' = "none" /\ pc' = "get_image_files"
    /\ UNCHANGED <<placeVars, dateVars, envVars, out_dir, image_files, prefVars,
                   loopVars, written>>

\* process_images, lines 203-208, with get_image_files
GetImageFiles ==
    /\ pc = "get_image_files"
    /\ image_files' = get_image_files(TheDirectory, listing)
    /\ dir_failure' = IF listing.ok THEN "none" ELSE "list_failed"
    /\ pc' = IF image_files' = <<>> THEN "returned" ELSE "ask_font"
    /\ UNCHANGED <<placeVars, dateVars, envVars, out_dir, prefVars, loopVars, written>>

\* the failure of os.makedirs printed, and the run going on into the loop
MakeDirsFailed_GoesOn ==
    /\ dir_failure' = "mkdir_failed"
    /\ pc' = "loop"
    /\ idx' = 0 /\ success_count' = 0

\* process_images, lines 214-222: os.makedirs(output_dir, exist_ok=True)
MakeDirsFailed ==
    /\ dir_failure' = "mkdir_failed"
    /\ pc' = "returned"
    /\ UNCHANGED <<idx, success_count>>

MakeDirs ==
    /\ pc = "makedirs"
    /\ \/ /\ pc' = "loop"
          /\ idx' = 0 /\ success_count' = 0
          /\ UNCHANGED dir_failure
       \/ MakeDirsFailed
    /\ UNCHANGED <<placeVars, dateVars, envVars, out_dir, image_files, prefVars,
                   watermark_text, open_image, before, aw_ret, attempts, results,
                   written>>

CurrentPath == image_files[idx]
CurrentName == Basename(CurrentPath)

\* lines 223-230: the for statement takes the next path and get_exif_date
\* resolves its text; after the last path, lines 238-239 print the summary
LoopNext ==
    /\ pc = "loop"
    /\ IF idx < Len(image_files)
       THEN /\ idx' = idx + 1
            /\ \E e \in RunEnvs : watermark_text' = get_exif_date(e).text
            /\ pc' = "add_watermark"
       ELSE /\ pc' = "done"
            /\ UNCHANGED <<idx, watermark_text>>
    /\ UNCHANGED <<placeVars, dateVars, envVars, out_dir, dir_failure, image_files,
                   prefVars, success_count, open_image, before, aw_ret, attempts,
                   results, written>>

\* the locals of add_watermark are gone when it returns
PlaceLocalsGone ==
    /\ pc_place' = "idle"
    /\ img_width' = 0 /\ img_height' = 0 /\ text_width' = 0 /\ text_height' = 0
    /\ anchor' = "top-left"
    /\ xy' = <<0, 0>>

\* add_watermark, lines 133-190 and 196-198: open the image, convert it, pick
\* a font, measure the text, place it and draw it.  Image.open or any later
\* step may raise; the handler returns False.
AddWatermarkDraw ==
    /\ pc = "add_watermark"
    /\ attempts' = Append(attempts, CurrentPath)
    /\ before' = out_dir[CurrentName]
    /\ \/ \E cv \in RunCanvases, tx \in RunTexts :
             /\ open_image' = CurrentPath
             /\ img_width' = cv[1] /\ img_height' = cv[2]
             /\ text_width' = tx[1] /\ text_height' = tx[2]
             /\ anchor' = position
             /\ xy' = calculate_watermark_position(cv[1], cv[2], tx[1], tx[2], position)
             /\ pc_place' = "returned"
             /\ pc' = "save"
             /\ UNCHANGED aw_ret
       \/ /\ open_image' = <<>>
          /\ aw_ret' = FALSE
          /\ pc' = "count"
          /\ UNCHANGED placeVars
    /\ UNCHANGED <<dateVars, envVars, out_dir, dir_failure, image_files, prefVars,
                   idx, success_count, watermark_text, results, written>>

\* img.save(output_path, quality=95): the content of the output path after
\* the call and whether the call raised.  Image.save opens the path for
\* writing (which creates or truncates it) and then runs the encoder.
\*   - it returns: the file is the new image;
\*   - it raises before the path is opened: the path is untouched;
\*   - it raises after the path is opened: the file holds what was written
\*     so far; a library version that removes a file it created itself
\*     leaves none when there was none before.
SaveOutcomes(content) ==
    { [raised |-> FALSE, opened |-> TRUE,  content |-> "new"],
      [raised |-> TRUE,  opened |-> FALSE, content |-> content],
      [raised |-> TRUE,  opened |-> TRUE,  content |-> "partial"] }
    \cup (IF content = "absent"
          THEN {[raised |-> TRUE, opened |-> TRUE, content |-> "absent"]}
          ELSE {})

\* add_watermark, lines 192-198: save, leave the with block, return
AddWatermarkSave ==
    /\ pc = "save"
    /\ \E o \in SaveOutcomes(out_dir[CurrentName]) :
          /\ out_dir' = [out_dir EXCEPT ![CurrentName] = o.content]
          /\ written' = IF o.opened THEN written \cup {CurrentName} ELSE written
          /\ aw_ret' = ~o.raised
    /\ open_image' = <<>>
    /\ PlaceLocalsGone
    /\ pc' = "count"
    /\ UNCHANGED <<dateVars, envVars, dir_failure, image_files, prefVars, idx,
                   success_count, watermark_text, before, attempts, results>>

\* the loop left at the first file that fails
LoopCount_StopOnFailure ==
    /\ pc = "count"
    /\ results' = Append(results, aw_ret)
    /\ IF aw_ret = TRUE
       THEN success_count' = success_count + 1 /\ pc' = "loop"
       ELSE UNCHANGED success_count /\ pc' = "done"
    /\ aw_ret' = "none"
    /\ before' = "absent"
    /\ watermark_text' = <<>>
    /\ UNCHANGED <<placeVars, dateVars, envVars, out_dir, dir_failure, image_files,
                   prefVars, idx, open_image, attempts, written>>

\* lines 232-236: count the success, go on with the next file either way
LoopCount ==
    /\ pc = "count"
    /\ results' = Append(results, aw_ret)
    /\ IF aw_ret = TRUE
       THEN success_count' = success_count + 1 /\ pc' = "loop"
       ELSE UNCHANGED success_count /\ pc' = "loop"
    /\ aw_ret' = "none"
    /\ before' = "absent"
    /\ watermark_text' = <<>>
    /\ UNCHANGED <<placeVars, dateVars, envVars, out_dir, dir_failure, image_files,
                   prefVars, idx, open_image, attempts, written>>

vars == <<placeVars, dateVars, runVars>>

\* the placement calculator alone
InitPos == PlaceIdle /\ DateIdle /\ RunIdle
NextPos == CalcPosition
SpecPos == InitPos /\ [][NextPos]_vars

\* the date resolver alone
InitDate == PlaceIdle /\ DateIdle /\ RunIdle
NextDate == ResolveDate
SpecDate == InitDate /\ [][NextDate]_vars

\* one run of the program
Init == PlaceIdle /\ DateIdle /\ RunInit
Next ==
    \/ Main
    \/ GetImageFiles
    \/ AskFontSize
    \/ AskColor
    \/ AskPosition
    \/ MakeDirs
    \/ LoopNext
    \/ AddWatermarkDraw
    \/ AddWatermarkSave
    \/ LoopCount
Spec == Init /\ [][Next]_vars

(***************************************************************************)
(* Properties of the placement calculator (SpecPos)                        *)
(***************************************************************************)
Returned == pc_place = "returned"

\* C1: with margin 20 the result is (20, 20) for top-left,
\* (W - w - 20, 20) for top-right, (20, H - h - 20) for bottom-left,
\* (W - w - 20, H - h - 20) for bottom-right, and for center the floor of
\* (W - w) / 2 and of (H - h) / 2, also when the difference is negative;
\* W=1000, H=800, w=120, h=30, bottom-right gives (860, 750).
C1_PlacementFormulas ==
    Returned =>
        /\ (anchor = "top-left" => xy = <<20, 20>>)
        /\ (anchor = "top-right" => xy = <<img_width - text_width - 20, 20>>)
        /\ (anchor = "bottom-left" => xy = <<20, img_height - text_height - 20>>)
        /\ (anchor = "bottom-right" =>
               xy = <<img_width - text_width - 20, img_height - text_height - 20>>)
        /\ (anchor = "center" =>
               /\ 2 * xy[1] <= img_width - text_width
               /\ img_width - text_width < 2 * xy[1] + 2
               /\ 2 * xy[2] <= img_height - text_height
               /\ img_height - text_height < 2 * xy[2] + 2)
        /\ (anchor = "bottom-right" /\ img_width = 1000 /\ img_height = 800
              /\ text_width = 120 /\ text_height = 30 => xy = <<860, 750>>)

\* a centred text one unit wider than the canvas: the floor of -1/2 is -1
C1_Witness ==
    /\ Returned /\ anchor = "center"
    /\ img_width - text_width = -1 /\ xy[1] = -1
    /\ img_height = 800 /\ text_height = 30 /\ xy[2] = 385

\* C2: an anchor outside the five names gets the coordinates bottom-left gets
\* for the same sizes, and the result is a pair of integers, not an error.
C2_UnknownAnchorIsBottomLeft ==
    Returned /\ anchor \notin {"top-left", "top-right", "bottom-left",
                               "bottom-right", "center"} =>
        /\ xy = calculate_watermark_position(img_width, img_height, text_width,
                                             text_height, "bottom-left")
        /\ xy \in Int \X Int

C2_Witness ==
    /\ Returned /\ anchor = "TOP-LEFT"
    /\ img_height = 800 /\ text_height = 30
    /\ xy = <<20, 750>>

Corner == anchor \in {"top-left", "top-right", "bottom-left", "bottom-right"}

InsideMargins ==
    /\ 20 <= xy[1] /\ xy[1] + text_width <= img_width - 20
    /\ 20 <= xy[2] /\ xy[2] + text_height <= img_height - 20

\* C9: nothing is clamped: for the four corner anchors each coordinate is 20 or
\* the canvas size minus the text size minus 20, whatever its sign; and the
\* text box lies inside the canvas with 20 units free on every side exactly
\* when w + 40 <= W and h + 40 <= H.
C9_NoClamping ==
    Returned /\ Corner =>
        /\ xy[1] = (IF anchor \in {"top-left", "bottom-left"} THEN 20
                    ELSE img_width - text_width - 20)
        /\ xy[2] = (IF anchor \in {"top-left", "top-right"} THEN 20
                    ELSE img_height - text_height - 20)
        /\ (InsideMargins <=>
               (text_width + 40 <= img_width /\ text_height + 40 <= img_height))

\* a text that does not fit: both coordinates come out negative
C9_Witness ==
    /\ Returned /\ anchor = "bottom-right"
    /\ text_width + 40 > img_width /\ text_height + 40 > img_height
    /\ xy[1] < 0 /\ xy[2] < 0
    /\ ~InsideMargins

(***************************************************************************)
(* Properties of the date resolver (SpecDate)                              *)
(***************************************************************************)
\* four digits, a dash, two digits, a dash, two digits
IsYMDForm(text) ==
    /\ Len(text) = 10
    /\ \A k \in {1, 2, 3, 4, 6, 7, 9, 10} : IsDigit(text[k])
    /\ text[5] = "-" /\ text[8] = "-"

\* a date written as YYYY-MM-DD
FormatYMD(date) ==
    ZeroPad(date.year, 4) \o <<"-">> \o ZeroPad(date.month, 2) \o <<"-">>
    \o ZeroPad(date.day, 2)

\* the EXIF DateTime value is there and strptime accepts it
ExifParseable == img_env.exif = "datetime" /\ strptime(img_env.value).ok

\* C3: get_exif_date never raises and never returns an empty value; whatever
\* the outcome of its steps, it returns a date string of the form YYYY-MM-DD.
C3_AlwaysYMD ==
    pc_date = "returned" =>
        /\ ~date_ret.raised
        /\ date_ret.text # <<>>
        /\ IsYMDForm(date_ret.text)

\* what does hold of every call: it returns, and the text is a year, a month
\* and a day separated by dashes, the month and the day two digits wide
DateNeverRaises ==
    pc_date = "returned" =>
        /\ ~date_ret.raised
        /\ date_ret.src \in {"exif", "mtime", "now"}
        /\ Len(date_ret.text) >= 7
        /\ \E date \in {strptime(img_env.value),
                        fromtimestamp(img_env.secs, img_env.utcoff), img_env.now} :
              date_ret.text = strftime(date, img_env.pad_year)

\* C4: strict priority, first success wins: a parseable EXIF value gives its
\* date portion as YYYY-MM-DD whatever the modification time and the clock
\* are; otherwise a readable modification time gives its local calendar date;
\* the current date is returned only when both failed.
C4_PriorityOrder ==
    pc_date = "returned" =>
        IF ExifParseable
        THEN date_ret.text = FormatYMD(strptime(img_env.value))
        ELSE IF img_env.mtime = "ok"
        THEN date_ret.text = FormatYMD(fromtimestamp(img_env.secs, img_env.utcoff))
        ELSE date_ret.text = FormatYMD(img_env.now)

\* the order of the sources by itself: which branch returned
SourcePriority ==
    pc_date = "returned" =>
        date_ret.src = (IF ExifParseable THEN "exif"
                        ELSE IF img_env.mtime = "ok" THEN "mtime" ELSE "now")

\* the example of the specification: "2023:05:17 10:00:00" gives "2023-05-17"
\* although a modification time on another day is readable
ExifExampleReached ==
    /\ pc_date = "returned"
    /\ img_env.value.chars = <<"2","0","2","3",":","0","5",":","1","7"," ",
                               "1","0",":","0","0",":","0","0">>
    /\ img_env.mtime = "ok" /\ img_env.secs = 0
    /\ date_ret.text = <<"2","0","2","3","-","0","5","-","1","7">>

(***************************************************************************)
(* Properties of a run (Spec)                                              *)
(***************************************************************************)
InLoop == pc \in {"loop", "add_watermark", "save", "count"}

C5_Sequential ==
    /\ attempts = SubSeq(image_files, 1, Len(attempts))
    /\ Len(attempts) = (IF pc = "add_watermark" THEN idx - 1 ELSE idx)
    /\ Len(results) = (IF pc \in {"add_watermark", "save", "count"} THEN idx - 1 ELSE idx)
    /\ (open_image # <<>> => pc = "save" /\ open_image = image_files[idx])
    /\ (pc = "done" => attempts = image_files /\ Len(results) = Len(image_files))
    /\ (results # <<>> => InLoop \/ pc = "done")

C5_LoopGoesOn ==
    /\ (pc = "count" => pc' = "loop")
    /\ (pc = "loop" /\ idx < Len(image_files) =>
           pc' = "add_watermark" /\ idx' = idx + 1 /\ open_image' = <<>>)
    /\ (pc = "loop" /\ idx = Len(image_files) => pc' = "done")

\* C5: once the output directory exists, every listed file is attempted
\* exactly once, one at a time and in list order (the image of one file is
\* closed before the next file is taken), and a file on which add_watermark
\* fails does not stop the loop: the next file is taken, and the run ends in
\* the summary with every file attempted.
C5_EveryFileAttempted == [](C5_Sequential) /\ [][C5_LoopGoesOn]_vars

\* the first of two files failed, the second was attempted all the same, and
\* the run reached the summary
C5_Witness ==
    /\ pc = "done"
    /\ Len(image_files) = 2
    /\ results = <<FALSE, TRUE>>
    /\ attempts = image_files

\* C6: when add_watermark returns False, the output path holds exactly what
\* it held before the call: no new file, no partial or overwritten file, also
\* when the step that failed is the save.
C6_FailureLeavesOutputUntouched ==
    pc = "count" /\ aw_ret = FALSE => out_dir[CurrentName] = before

\* what does hold: a call that fails before img.save is reached leaves the
\* output path alone
FailureBeforeSaveLeavesOutput ==
    [][pc = "add_watermark" /\ pc' = "count" =>
          aw_ret' = FALSE /\ out_dir' = out_dir /\ written' = written]_vars

RunAborted ==
    /\ pc \in {"exit_1", "returned"}
    /\ attempts = <<>>
    /\ results = <<>>
    /\ written = {}
    /\ \A n \in DOMAIN out_dir : out_dir[n] \in {"absent", "old"}

\* C7: a directory-level failure aborts the run: when the path is missing or
\* no directory, when listing it fails, or when the output directory cannot be
\* created, add_watermark is never called and no output file is written.
C7_DirectoryFailureAborts ==
    /\ (dir_kind # "dir" /\ pc # "main" => dir_failure \in {"missing", "not_dir"})
    /\ (dir_kind = "dir" /\ ~listing.ok /\ pc \notin {"main", "get_image_files"} =>
           dir_failure = "list_failed")
    /\ (dir_failure # "none" => RunAborted)

\* the preferences were asked, the output directory could not be made
C7_Witness ==
    /\ dir_failure = "mkdir_failed"
    /\ pc = "returned"
    /\ image_files # <<>>
    /\ position \in KnownAnchors
    /\ attempts = <<>>

SucceededNames == { Basename(image_files[k]) : k \in { j \in 1..Len(results) : results[j] = TRUE } }

\* the names under which _watermark holds data this run wrote
WrittenOutputs == { n \in DOMAIN out_dir : out_dir[n] \in {"new", "partial"} }

\* C8: at the end of the loop the files written to _watermark in this run
\* are exactly the base names of the inputs for which add_watermark returned
\* True, success_count is the number of those, and it lies between 0 and the
\* number of listed files.
C8_OutputsMatchSuccesses ==
    pc = "done" =>
        /\ WrittenOutputs = SucceededNames
        /\ success_count = Cardinality(SucceededNames)
        /\ 0 <= success_count /\ success_count <= Len(image_files)

\* what does hold at the end: the count is the number of calls that returned
\* True, and each of those left a complete output under the input's name
CountMatchesSuccesses ==
    pc = "done" =>
        /\ success_count = Cardinality(SucceededNames)
        /\ 0 <= success_count /\ success_count <= Len(image_files)
        /\ SucceededNames = { n \in DOMAIN out_dir : out_dir[n] = "new" }
        /\ SucceededNames \subseteq written

SixColors == { <<255, 255, 255>>, <<0, 0, 0>>, <<255, 0, 0>>, <<0, 0, 255>>,
               <<0, 255, 0>>, <<255, 255, 0>> }

FiveAnchors == {"top-left", "bottom-left", "top-right", "bottom-right", "center"}

PreferencesReturned ==
    \/ pc \in {"makedirs", "loop", "add_watermark", "save", "count", "done"}
    \/ dir_failure = "mkdir_failed"

C10_Valid ==
    /\ (pc \in {"ask_color", "ask_position"} \/ PreferencesReturned =>
           font_size \in 10..200)
    /\ (pc = "ask_position" \/ PreferencesReturned => color \in SixColors)
    /\ (PreferencesReturned => position \in FiveAnchors)
    /\ (pc = "save" => pc_place = "returned" /\ anchor = position
                        /\ anchor \in FiveAnchors)

Prompts == {"ask_font", "ask_color", "ask_position"}

\* font_size is assigned before its range is checked (line 78), so at its own
\* prompt it may hold a refused number; every other preference is untouched
C10_Reprompt ==
    pc \in Prompts /\ pc' = pc =>
        /\ UNCHANGED <<color, position>>
        /\ (pc # "ask_font" => UNCHANGED font_size)

\* C10: when get_user_preferences has returned, the font size is an integer
\* in 10..200, the colour one of the six triples and the anchor one of the
\* five names; a line that is not accepted leaves the run at the same prompt
\* and the preferences of the other prompts as they are; so
\* calculate_watermark_position is never called from process_images with an
\* anchor outside the five names.
C10_PreferencesValid == [](C10_Valid) /\ [][C10_Reprompt]_vars

\* the line " 50 " was accepted as 50, the sixth colour and the fifth position
\* were chosen, and the placement has been computed for that anchor
C10_Witness ==
    /\ pc = "save"
    /\ font_size = 50
    /\ color = <<255, 255, 0>>
    /\ position = "center" /\ anchor = "center"

\* a refused line leaves the run at the same prompt
RepromptReached == pc = "ask_font" /\ last_input = <<"2", "0", "1">> /\ font_size = 201

====
